---- MODULE Spec2Model ----
(***************************************************************************)
(* The in-memory batch tracker of the transcript service:                  *)
(* TranscriptProcessor (services/TranscriptProcessor.ts) driven by         *)
(* TranscriptController (controllers/TranscriptController.ts).             *)
(*                                                                         *)
(* Node runs one logical thread.  A step of the model is one run of that   *)
(* thread between two suspension points that wait for the outside world    *)
(* (an HTTP request arriving, a provider response arriving, a timer        *)
(* firing); continuations that are only queued as microtasks run in the    *)
(* same step as the event that released them.                              *)
(***************************************************************************)
EXTENDS Integers, Sequences, FiniteSets, TLC

\* ---------------------------------------------------------------- bounds
MaxBatches == 1        \* batches submitted in one behaviour
MaxTotalFiles == 2     \* files submitted in one behaviour, over all batches
MaxTime == 2           \* ticks of the clock in one behaviour
MaxPolls == 2          \* progress requests of the page under way at once

\* --------------------------------------------------------------- state
VARIABLES
    jobs,     \* this.jobs: the ids registered in the Map
    heap,     \* the BatchJob objects ever created, by id (an object lives on
              \* after jobs.delete while startProcessing still references it)
    task,     \* per batch, the position of its startProcessing invocation
    calls,    \* per batch and file, the three provider promises
    ctl,      \* the batch processTranscripts has created and not yet started
    ret,      \* what the call made in the last step returned (NoRet when
              \* the step was a provider settlement or a timer): val for a
              \* boolean, error for a thrown error, resp for a response
    sent,     \* per batch, the response processTranscripts has sent for the
              \* submission that created it (NoResponse until it is sent)
    wire,     \* per batch, file and provider, the request handed to the
              \* provider's SDK (NoRequest until the call is made),
    now,      \* the clock read by new Date(), in ticks
    began,    \* per batch and file, the clock when the file's status
              \* became processing (Unset before); a history variable,
              \* the program keeps no such field
    client    \* the page's TranscriptProcessor object (public/app.js) and
              \* its progress requests under way

\* ------------------------------------------------------------- constants
Providers == {"openai", "claude", "gemini"}
BatchIds == 1..MaxBatches

\* ------------------------------------------------------------ file names
\* A file name (originalname of an upload) is a sequence of characters.
\* processTranscripts keeps a file when its mimetype is text/plain or its
\* name ends in .txt (lines 42-46), so a kept name need not end in .txt.
\* The k-th file of a submission is named a.txt, b, c.txt, d, ...
TxtExt == <<".", "t", "x", "t">>
Letters == <<"a", "b", "c", "d", "e", "f">>
FileName(k) == IF k % 2 = 1 THEN <<Letters[k]>> \o TxtExt ELSE <<Letters[k]>>
Uploads == {[k \in 1..n |-> FileName(k)] : n \in 1..MaxTotalFiles}

\* -------------------------------------------------------------- records
NoResult == [set |-> FALSE, filename |-> <<>>, analysis |-> ""]

NoCall == [st |-> "none", val |-> NoResult]
PendingCall == [st |-> "pending", val |-> NoResult]
RejectedCall == [st |-> "rejected", val |-> NoResult]
NoCalls == [p \in Providers |-> NoCall]

NoRet == [op |-> "none", id |-> 0, val |-> FALSE]

\* an optional Date or number that is not set (types: processingEnd?,
\* totalDuration?)
Unset == -1

\* lines 50-60: startTime is the time at which createBatch runs
NewFile(originalname) ==
    [originalname |-> originalname,
     status |-> "pending",
     progress |-> [startTime |-> now, processingEnd |-> Unset,
                   totalDuration |-> Unset],
     results |-> [p \in Providers |-> NoResult],
     error |-> ""]

\* NewMetrics with no file counted as pending
NewMetricsNothingPending(n) ==
    [total |-> n, pending |-> 0, processing |-> 0, completed |-> 0,
     failed |-> 0, openaiComplete |-> 0, claudeComplete |-> 0,
     geminiComplete |-> 0]

NewMetrics(n) ==
    [total |-> n, pending |-> n, processing |-> 0, completed |-> 0,
     failed |-> 0, openaiComplete |-> 0, claudeComplete |-> 0,
     geminiComplete |-> 0]

\* A JobConfig (types, lines 468-476): texts are sequences of pieces of
\* text, model names sequences of characters.  BatchJob.jobConfig is
\* optional: NoConfig stands for undefined.
Gpt4o == <<"g", "p", "t", "-", "4", "o", "-", "m", "i", "n", "i">>
Gpt4Turbo == <<"g", "p", "t", "-", "4", "-", "t", "u", "r", "b", "o">>
ClaudeSonnet == <<"c", "l", "a", "u", "d", "e">>
GeminiFlash == <<"g", "e", "m", "i", "n", "i">>

DefaultModels ==
    [p \in Providers |->
        CASE p = "openai" -> Gpt4o
          [] p = "claude" -> ClaudeSonnet
          [] p = "gemini" -> GeminiFlash]

JobConfig(jobDescription, prompt, models) ==
    [set |-> TRUE, jobDescription |-> jobDescription, prompt |-> prompt,
     models |-> models]

NoConfig ==
    [set |-> FALSE, jobDescription |-> <<>>, prompt |-> <<>>,
     models |-> [p \in Providers |-> <<>>]]

DefaultConfig ==
    JobConfig(<<"senior engineer">>, <<"summarise the interview">>,
              DefaultModels)

JobDescriptions == {<<"senior engineer">>, <<"ignore the prompt">>}
Prompts == {<<"summarise the interview">>, <<"rate the candidate">>}
OpenAIModels == {Gpt4o, Gpt4Turbo}

JobConfigs ==
    {JobConfig(jd, pr, [DefaultModels EXCEPT !["openai"] = m]) :
        jd \in JobDescriptions, pr \in Prompts, m \in OpenAIModels}

NewBatch(files) ==
    [status |-> "created",
     files |-> [k \in 1..Len(files) |-> NewFile(files[k])],
     jobConfig |-> DefaultConfig,
     metrics |-> NewMetrics(Len(files))]

NewTask == [pc |-> "idle", i |-> 0]

\* the responses of processTranscripts to a submission (controller lines
\* 106-114): none yet, or 200 with the number of files kept
NoResponse == [code |-> 0, success |-> FALSE, totalFiles |-> 0, status |-> ""]
AcceptedResponse(n) ==
    [code |-> 200, success |-> TRUE, totalFiles |-> n, status |-> "processing"]

\* the constructor of the page's object (app.js lines 2-6); the download
\* section of the page starts hidden
NewClient ==
    [currentBatchId |-> 0,      \* 0 for null
     progressInterval |-> 0,    \* 0 for null, else the n-th timer created
     running |-> FALSE,         \* whether that timer is still set
     downloadSection |-> "hidden",
     polls |-> {}]              \* progress requests sent and not yet
                                \* handled: the batch asked for and the
                                \* response, once the server has made it

vars == <<jobs, heap, task, calls, ctl, ret, sent, wire, now, began, client>>

Init ==
    /\ jobs = {}
    /\ heap = <<>>
    /\ task = <<>>
    /\ calls = <<>>
    /\ ctl = 0
    /\ ret = NoRet
    /\ sent = <<>>
    /\ wire = <<>>
    /\ now = 0
    /\ began = <<>>
    /\ client = NewClient

Allocated == 1..Len(heap)

RECURSIVE FilesIn(_)
FilesIn(batches) ==
    IF batches = <<>> THEN 0
    ELSE Len(Head(batches).files) + FilesIn(Tail(batches))

\* -------------------------------------------------- provider adapters
\* processWithOpenAI / processWithClaude / processWithGemini: the value a
\* fulfilled call resolves to.
ProviderText(p) ==
    CASE p = "openai" -> "openai analysis"
      [] p = "claude" -> "claude analysis"
      [] p = "gemini" -> "gemini analysis"

TranscriptAnalysis(p, filename) ==
    [set |-> TRUE, filename |-> filename, analysis |-> ProviderText(p)]

FulfilledCall(p, filename) ==
    [st |-> "fulfilled", val |-> TranscriptAnalysis(p, filename)]

\* The request each adapter hands to its SDK.  A request is the model
\* name, the messages (role and text) and the two token limits, 0 for a
\* limit that is not part of the request.
MaxTokens == 4000
AnalyzeThis == "Analyze this transcript:"
NoRequest ==
    [model |-> <<>>, messages |-> <<>>, max_tokens |-> 0,
     max_completion_tokens |-> 0]
NoRequests == [p \in Providers |-> NoRequest]

\* createBatch line 50: the text read from the stored copy of an upload
Content(originalname) == <<"transcript of">> \o originalname

\* String.prototype.includes
Includes(str, sub) ==
    \E j \in 1..(Len(str) - Len(sub) + 1) :
        SubSeq(str, j, j + Len(sub) - 1) = sub

\* lines 256-260
NewerModelMarks ==
    {<<"g", "p", "t", "-", "4", "o">>, <<"g", "p", "t", "-", "5">>,
     <<"o", "1">>, <<"o", "3">>}
IsNewerModel(model) == \E mark \in NewerModelMarks : Includes(model, mark)

\* OpenAIRequest with the job description put before the prompt
OpenAIRequestWithJobDescription(content, jobDescription, prompt, model) ==
    [model |-> model,
     messages |-> <<[role |-> "system", content |-> jobDescription \o prompt],
                    [role |-> "user",
                     content |-> <<AnalyzeThis>> \o content]>>,
     max_tokens |-> IF IsNewerModel(model) THEN 0 ELSE MaxTokens,
     max_completion_tokens |-> IF IsNewerModel(model) THEN MaxTokens ELSE 0]

\* processWithOpenAI, lines 252-279
OpenAIRequest(content, jobDescription, prompt, model) ==
    [model |-> model,
     messages |-> <<[role |-> "system", content |-> prompt],
                    [role |-> "user",
                     content |-> <<AnalyzeThis>> \o content]>>,
     max_tokens |-> IF IsNewerModel(model) THEN 0 ELSE MaxTokens,
     max_completion_tokens |-> IF IsNewerModel(model) THEN MaxTokens ELSE 0]

\* processWithClaude, lines 307-318
ClaudeRequest(content, jobDescription, prompt, model) ==
    [model |-> model,
     messages |-> <<[role |-> "user",
                     content |-> prompt \o <<AnalyzeThis>> \o content]>>,
     max_tokens |-> MaxTokens,
     max_completion_tokens |-> 0]

\* processWithGemini, lines 350-357: the two parts of generateContent
GeminiRequest(content, jobDescription, prompt, model) ==
    [model |-> model,
     messages |-> <<[role |-> "part", content |-> prompt],
                    [role |-> "part",
                     content |-> <<AnalyzeThis>> \o content]>>,
     max_tokens |-> 0,
     max_completion_tokens |-> 0]

ProviderRequest(p, content, jobDescription, prompt, model) ==
    CASE p = "openai" -> OpenAIRequest(content, jobDescription, prompt, model)
      [] p = "claude" -> ClaudeRequest(content, jobDescription, prompt, model)
      [] p = "gemini" -> GeminiRequest(content, jobDescription, prompt, model)

\* Settled as Promise.all would see it: a rejection is not waited for
SettledOnlyWhenFulfilled(c) == c.st = "fulfilled"

\* AllSettled as Promise.race would resolve: on the first settlement
AnySettled(cs) == \E p \in Providers : cs[p].st \in {"fulfilled", "rejected"}

Settled(c) == c.st \in {"fulfilled", "rejected"}
AllSettled(cs) == \A p \in Providers : Settled(cs[p])

\* ------------------------------------------------- processTranscript
IncComplete(m, p) ==
    CASE p = "openai" -> [m EXCEPT !.openaiComplete = @ + 1]
      [] p = "claude" -> [m EXCEPT !.claudeComplete = @ + 1]
      [] p = "gemini" -> [m EXCEPT !.geminiComplete = @ + 1]

CompleteCount(m, p) ==
    CASE p = "openai" -> m.openaiComplete
      [] p = "claude" -> m.claudeComplete
      [] p = "gemini" -> m.geminiComplete

\* BeginFile as if the provider counters were kept per file
BeginFileResetCounters(batch, i) ==
    [batch EXCEPT !.files[i].status = "processing",
                  !.metrics.processing = @ + 1,
                  !.metrics.pending = @ - 1,
                  !.metrics.openaiComplete = 0,
                  !.metrics.claudeComplete = 0,
                  !.metrics.geminiComplete = 0]

\* BeginFile without the decrement of line 143
BeginFileKeepsPending(batch, i) ==
    [batch EXCEPT !.files[i].status = "processing",
                  !.metrics.processing = @ + 1]

\* BeginFile as if the loop did not wait for processTranscript: every
\* file from i on enters processing
BeginFileAndRest(batch, i) ==
    [batch EXCEPT
        !.files = [k \in DOMAIN @ |->
                     IF k >= i THEN [@[k] EXCEPT !.status = "processing"]
                     ELSE @[k]],
        !.metrics.processing = @ + (Len(batch.files) - i + 1),
        !.metrics.pending = @ - (Len(batch.files) - i + 1)]

\* lines 141-143: the file enters processing
BeginFile(batch, i) ==
    [batch EXCEPT !.files[i].status = "processing",
                  !.metrics.processing = @ + 1,
                  !.metrics.pending = @ - 1]

\* HandleResult with the slot of the first file written whatever the file
HandleResultFirstFile(batch, i, p, c) ==
    IF c.st = "fulfilled"
    THEN [batch EXCEPT !.files[1].results[p] = c.val,
                       !.metrics = IncComplete(@, p)]
    ELSE batch

\* HandleResult with the counter incremented for a failed call as well
HandleResultCountsFailures(batch, i, p, c) ==
    IF c.st = "fulfilled"
    THEN [batch EXCEPT !.files[i].results[p] = c.val,
                       !.metrics = IncComplete(@, p)]
    ELSE [batch EXCEPT !.metrics = IncComplete(@, p)]

\* lines 174-214, one provider: store a fulfilled result, count it
HandleResult(batch, i, p, c) ==
    IF c.st = "fulfilled"
    THEN [batch EXCEPT !.files[i].results[p] = c.val,
                       !.metrics = IncComplete(@, p)]
    ELSE batch

\* HandleResults as after Promise.all: nothing stored when a call failed
HandleResultsAllOrNothing(batch, i, cs) ==
    IF \E p \in Providers : cs[p].st = "rejected"
    THEN batch
    ELSE HandleResult(
             HandleResult(
                 HandleResult(batch, i, "openai", cs["openai"]),
                 i, "claude", cs["claude"]),
             i, "gemini", cs["gemini"])

HandleResults(batch, i, cs) ==
    HandleResult(
        HandleResult(
            HandleResult(batch, i, "openai", cs["openai"]),
            i, "claude", cs["claude"]),
        i, "gemini", cs["gemini"])

SuccessCount(cs) == Cardinality({p \in Providers : cs[p].st = "fulfilled"})

AllFailedError == "All models failed to process the transcript"

\* DetermineStatus with a file completed only when every provider succeeded
DetermineStatusAllRequired(batch, i, cs) ==
    IF SuccessCount(cs) = Cardinality(Providers)
    THEN [batch EXCEPT !.files[i].status = "completed",
                       !.metrics.completed = @ + 1]
    ELSE [batch EXCEPT !.files[i].status = "failed",
                       !.files[i].error = AllFailedError,
                       !.metrics.failed = @ + 1]

\* lines 216-234: the file's overall status
DetermineStatus(batch, i, cs) ==
    IF SuccessCount(cs) > 0
    THEN [batch EXCEPT !.files[i].status = "completed",
                       !.metrics.completed = @ + 1]
    ELSE [batch EXCEPT !.files[i].status = "failed",
                       !.files[i].error = AllFailedError,
                       !.metrics.failed = @ + 1]

\* lines 236-238: the end of processing and the file's duration
RecordDuration(batch, i) ==
    LET startTime == batch.files[i].progress.startTime
    IN  [batch EXCEPT !.files[i].progress.processingEnd = now,
                      !.files[i].progress.totalDuration = now - startTime]

\* EndFile without the decrement of line 239
EndFileNoDecrement(batch) == batch

\* line 239
EndFile(batch) == [batch EXCEPT !.metrics.processing = @ - 1]

\* lines 174-239: the continuation of processTranscript after allSettled
FinishFile(batch, i, cs) ==
    EndFile(RecordDuration(
                DetermineStatus(HandleResults(batch, i, cs), i, cs), i))

\* -------------------------------------------------- startProcessing
\* Nothing awaited inside the try block of lines 110-126 can reject:
\* Promise.allSettled resolves whatever the provider calls do, and the
\* timer promise only resolves.  The catch block of lines 127-131 is
\* therefore not entered by any step of Next; NextFault adds steps that
\* enter it.
\* CompleteBatch with a batch failed as soon as one of its files failed
CompleteBatchFailsOnFileFailure(batch) ==
    [batch EXCEPT !.status = IF batch.metrics.failed > 0 THEN "failed"
                             ELSE "completed"]

\* CompleteBatch that leaves a cancelled batch cancelled
CompleteBatchKeepsCancelled(batch) ==
    IF batch.status = "cancelled" THEN batch
    ELSE [batch EXCEPT !.status = "completed"]

\* lines 124-125
CompleteBatch(batch) == [batch EXCEPT !.status = "completed"]

\* AfterFile with the delay waited after the last file as well
AfterFileAlwaysDelays(batch, i) ==
    [batch |-> batch, pc |-> "delay", i |-> i, issue |-> FALSE]

\* lines 118-125: after processTranscript(files[i]) returned
AfterFile(batch, i) ==
    IF i < Len(batch.files)
    THEN [batch |-> batch, pc |-> "delay", i |-> i, issue |-> FALSE]
    ELSE [batch |-> CompleteBatch(batch), pc |-> "done", i |-> i,
          issue |-> FALSE]

\* EnterFile without the test of line 139: a file is processed whether
\* the batch is registered or not
EnterFileIgnoresRegistry(batch, registered, i) ==
    IF i > Len(batch.files)
    THEN [batch |-> CompleteBatch(batch), pc |-> "done", i |-> i - 1,
          issue |-> FALSE]
    ELSE [batch |-> BeginFile(batch, i), pc |-> "calls", i |-> i,
          issue |-> TRUE]

\* lines 113-115 and 138-172: the loop calls processTranscript(files[i]),
\* which returns at once when the id is no longer registered
EnterFile(batch, registered, i) ==
    IF i > Len(batch.files)
    THEN [batch |-> CompleteBatch(batch), pc |-> "done", i |-> i - 1,
          issue |-> FALSE]
    ELSE IF ~registered \/ ~batch.jobConfig.set
         THEN AfterFile(batch, i)
         ELSE [batch |-> BeginFile(batch, i), pc |-> "calls", i |-> i,
               issue |-> TRUE]

\* IssueCalls with the failed calls of earlier files made again
IssueCallsRetriesFailed(cs, step) ==
    IF step.issue
    THEN [k \in DOMAIN cs |->
            IF k = step.i THEN [p \in Providers |-> PendingCall]
            ELSE [p \in Providers |->
                    IF cs[k][p].st = "rejected" THEN PendingCall
                    ELSE cs[k][p]]]
    ELSE cs

IssueCalls(cs, step) ==
    IF step.issue
    THEN [cs EXCEPT ![step.i] = [p \in Providers |-> PendingCall]]
    ELSE cs

\* lines 145-172: the three requests made for file i, from the batch's
\* job configuration and the file's content and name
RequestsFor(batch, i) ==
    [p \in Providers |->
        ProviderRequest(p, Content(batch.files[i].originalname),
                        batch.jobConfig.jobDescription,
                        batch.jobConfig.prompt,
                        batch.jobConfig.models[p])]

IssueRequests(w, step) ==
    IF step.issue
    THEN [w EXCEPT ![step.i] = RequestsFor(step.batch, step.i)]
    ELSE w

\* line 141, observed: the clock when the file's status becomes processing
MarkBegan(b, step) ==
    IF step.issue THEN [b EXCEPT ![step.i] = now] ELSE b

\* ------------------------------------------------------------- actions
\* lines 63-84: the batch is built and registered under a fresh id
Register(files, jobConfig) ==
    /\ heap' = Append(heap, [NewBatch(files) EXCEPT !.jobConfig = jobConfig])
    /\ jobs' = jobs \cup {Len(heap) + 1}
    /\ task' = Append(task, NewTask)
    /\ calls' = Append(calls, [k \in 1..Len(files) |-> NoCalls])
    /\ sent' = Append(sent, NoResponse)
    /\ wire' = Append(wire, [k \in 1..Len(files) |-> NoRequests])
    /\ began' = Append(began, [k \in 1..Len(files) |-> Unset])
    /\ UNCHANGED <<now, client>>

\* createBatch, as called by processTranscripts (line 99)
CreateBatchWith(files, jobConfig) ==
    /\ ctl = 0
    /\ Len(heap) < MaxBatches
    /\ FilesIn(heap) + Len(files) <= MaxTotalFiles
    /\ Register(files, jobConfig)
    /\ ctl' = Len(heap) + 1
    /\ ret' = [op |-> "createBatch", id |-> Len(heap) + 1, val |-> TRUE]

CreateBatch(files) == CreateBatchWith(files, DefaultConfig)

\* StartOutcome without the test of line 100
StartOutcomeNoConfigCheck(registered, hasConfig) ==
    IF ~registered THEN "not found" ELSE "started"

\* lines 95-102: the two errors startProcessing throws before it mutates
StartOutcome(registered, hasConfig) ==
    IF ~registered THEN "not found"
    ELSE IF ~hasConfig THEN "no config"
    ELSE "started"

HasConfig(id) == id \in Allocated /\ heap[id].jobConfig.set

\* startProcessing up to its first suspension (lines 95-115, 138-172)
Start(id) ==
    LET outcome == StartOutcome(id \in jobs, HasConfig(id))
    IN  IF outcome # "started"
        THEN /\ ret' = [op |-> "startProcessing", id |-> id, error |-> outcome]
             /\ UNCHANGED <<jobs, heap, task, calls, wire, now, began, client>>
        ELSE LET started == [heap[id] EXCEPT !.status = "processing"]
                 step == EnterFile(started, TRUE, 1)
             IN  /\ heap' = [heap EXCEPT ![id] = step.batch]
                 /\ task' = [task EXCEPT ![id] = [pc |-> step.pc, i |-> step.i]]
                 /\ calls' = [calls EXCEPT ![id] = IssueCalls(@, step)]
                 /\ wire' = [wire EXCEPT ![id] = IssueRequests(@, step)]
                 /\ began' = [began EXCEPT ![id] = MarkBegan(@, step)]
                 /\ ret' = NoRet
                 /\ UNCHANGED <<jobs, now, client>>

\* processTranscripts from the return of createBatch on (controller lines
\* 99-114): startProcessing is called in the microtask in which createBatch
\* returned, and the response is sent when that call has suspended
StartProcessing(id) ==
    /\ ctl = id
    /\ id \in Allocated
    /\ ctl' = 0
    /\ Start(id)
    /\ sent' = [sent EXCEPT ![id] = AcceptedResponse(Len(heap[id].files))]

\* one provider promise settles; when it is the last of the three,
\* Promise.allSettled resolves and the rest of processTranscript and the
\* loop up to the next suspension run (lines 174-239, 118-125)
Settle(id, p, ok) ==
    /\ ctl = 0
    /\ id \in Allocated
    /\ task[id].pc = "calls"
    /\ LET i == task[id].i
           file == heap[id].files[i]
           c == IF ok THEN FulfilledCall(p, file.originalname)
                ELSE RejectedCall
           cs == [calls[id][i] EXCEPT ![p] = c]
       IN  /\ calls[id][i][p].st = "pending"
           /\ calls' = [calls EXCEPT ![id][i] = cs]
           /\ IF AllSettled(cs)
              THEN LET step == AfterFile(FinishFile(heap[id], i, cs), i)
                   IN  /\ heap' = [heap EXCEPT ![id] = step.batch]
                       /\ task' = [task EXCEPT
                                     ![id] = [pc |-> step.pc, i |-> step.i]]
              ELSE UNCHANGED <<heap, task>>
    /\ ret' = NoRet
    /\ UNCHANGED <<jobs, ctl, sent, wire, now, began, client>>

\* the inter-file timer fires (line 120): next iteration of the loop
DelayElapsed(id) ==
    /\ ctl = 0
    /\ id \in Allocated
    /\ task[id].pc = "delay"
    /\ LET step == EnterFile(heap[id], id \in jobs, task[id].i + 1)
       IN  /\ heap' = [heap EXCEPT ![id] = step.batch]
           /\ task' = [task EXCEPT ![id] = [pc |-> step.pc, i |-> step.i]]
           /\ calls' = [calls EXCEPT ![id] = IssueCalls(@, step)]
           /\ wire' = [wire EXCEPT ![id] = IssueRequests(@, step)]
           /\ began' = [began EXCEPT ![id] = MarkBegan(@, step)]
    /\ ret' = NoRet
    /\ UNCHANGED <<jobs, ctl, sent, now, client>>

\* ------------------------------------------- the catch of startProcessing
\* No statement of the try block is known to throw (see above).  The steps
\* below let one throw all the same, as a fault of the runtime, at the
\* start of an iteration ("enter", before line 141), when Promise.allSettled
\* has resolved ("results", before line 174) or when processTranscript has
\* returned ("after", after line 239).
\* Catch that leaves the status as it is
CatchLeavesStatus(batch) == batch

\* lines 127-131: the catch block; the error is thrown again
Catch(batch) == [batch EXCEPT !.status = "failed"]

\* controller lines 102-104: the rejection of startProcessing is logged
LoggedError(id) == [op |-> "startProcessing", id |-> id, error |-> "logged"]

ThrowPoints == {"results", "after"}

\* the first iteration throws in the step in which startProcessing is called
StartProcessingThrows(id) ==
    /\ ctl = id
    /\ id \in jobs
    /\ HasConfig(id)
    /\ ctl' = 0
    /\ heap' = [heap EXCEPT ![id] = Catch([@ EXCEPT !.status = "processing"])]
    /\ task' = [task EXCEPT ![id] = [pc |-> "thrown", i |-> 1]]
    /\ ret' = LoggedError(id)
    /\ sent' = [sent EXCEPT ![id] = AcceptedResponse(Len(heap[id].files))]
    /\ UNCHANGED <<jobs, calls, wire, now, began, client>>

\* the last provider promise of a file settles and the continuation throws
SettleThrows(id, p, ok, point) ==
    /\ ctl = 0
    /\ id \in Allocated
    /\ task[id].pc = "calls"
    /\ LET i == task[id].i
           file == heap[id].files[i]
           c == IF ok THEN FulfilledCall(p, file.originalname)
                ELSE RejectedCall
           cs == [calls[id][i] EXCEPT ![p] = c]
       IN  /\ calls[id][i][p].st = "pending"
           /\ AllSettled(cs)
           /\ calls' = [calls EXCEPT ![id][i] = cs]
           /\ heap' = [heap EXCEPT
                         ![id] = Catch(IF point = "results" THEN @
                                       ELSE FinishFile(@, i, cs))]
           /\ task' = [task EXCEPT ![id] = [pc |-> "thrown", i |-> i]]
    /\ ret' = LoggedError(id)
    /\ UNCHANGED <<jobs, ctl, sent, wire, now, began, client>>

\* the timer fires and the next iteration throws
DelayElapsedThrows(id) ==
    /\ ctl = 0
    /\ id \in Allocated
    /\ task[id].pc = "delay"
    /\ heap' = [heap EXCEPT ![id] = Catch(@)]
    /\ task' = [task EXCEPT ![id] = [pc |-> "thrown", i |-> task[id].i + 1]]
    /\ ret' = LoggedError(id)
    /\ UNCHANGED <<jobs, calls, ctl, sent, wire, now, began, client>>

\* CancelReturn that accepts batches in processing only
CancelReturnOnlyProcessing(registered, status) ==
    registered /\ status = "processing"

\* CancelReturn without the test for a completed batch
CancelReturnIgnoresCompleted(registered, status) ==
    ~(~registered \/ status = "cancelled")

\* cancelBatch (lines 413-424)
CancelReturn(registered, status) ==
    ~(~registered \/ status = "completed" \/ status = "cancelled")

StatusOf(id) == IF id \in Allocated THEN heap[id].status ELSE "none"

\* cancelBatch that cancels every batch that can be cancelled
CancelBatchEvery(id) ==
    /\ ctl = 0
    /\ LET r == CancelReturn(id \in jobs, StatusOf(id))
       IN  /\ ret' = [op |-> "cancelBatch", id |-> id, val |-> r]
           /\ heap' = IF r
                      THEN [j \in DOMAIN heap |->
                              IF CancelReturn(j \in jobs, StatusOf(j))
                              THEN [heap[j] EXCEPT !.status = "cancelled"]
                              ELSE heap[j]]
                      ELSE heap
    /\ UNCHANGED <<jobs, task, calls, ctl, sent, wire, now, began, client>>

CancelBatch(id) ==
    /\ ctl = 0
    /\ LET r == CancelReturn(id \in jobs, StatusOf(id))
       IN  /\ ret' = [op |-> "cancelBatch", id |-> id, val |-> r]
           /\ heap' = IF r THEN [heap EXCEPT ![id].status = "cancelled"]
                      ELSE heap
    /\ UNCHANGED <<jobs, task, calls, ctl, sent, wire, now, began, client>>

\* DeleteReturn without the test for a batch in processing
DeleteReturnIgnoresProcessing(registered, status) == registered

\* DeleteReturn that accepts completed batches only
DeleteReturnOnlyCompleted(registered, status) ==
    registered /\ status = "completed"

\* deleteBatch (lines 427-434)
DeleteReturn(registered, status) ==
    ~(~registered \/ status = "processing")

DeleteBatch(id) ==
    /\ ctl = 0
    /\ LET r == DeleteReturn(id \in jobs, StatusOf(id))
       IN  /\ ret' = [op |-> "deleteBatch", id |-> id, val |-> r]
           /\ jobs' = IF r THEN jobs \ {id} ELSE jobs
    /\ UNCHANGED <<heap, task, calls, ctl, sent, wire, now, began, client>>

\* getMultiModelResults (lines 392-405): per file, the name and the three
\* result slots as they are now
GetMultiModelResults(batch) ==
    [k \in 1..Len(batch.files) |->
        [filename |-> batch.files[k].originalname,
         results |-> batch.files[k].results]]

\* path.basename(name, ext) for a name without trailing slashes: the part
\* after the last "/", without ext when it ends in ext and is longer than it
RECURSIVE LastSegment(_)
LastSegment(name) ==
    IF \E j \in 1..Len(name) : name[j] = "/"
    THEN LastSegment(Tail(name))
    ELSE name

EndsWith(name, ext) ==
    /\ Len(name) >= Len(ext)
    /\ SubSeq(name, Len(name) - Len(ext) + 1, Len(name)) = ext

Basename(name, ext) ==
    IF name = ext THEN <<>>
    ELSE LET seg == LastSegment(name)
         IN  IF Len(seg) > Len(ext) /\ EndsWith(seg, ext)
             THEN SubSeq(seg, 1, Len(seg) - Len(ext))
             ELSE seg

\* the name of a provider's entry (controller lines 190, 196, 202)
EntryName(p, baseFilename) == <<p, "/">> \o baseFilename \o <<"-", p>> \o TxtExt

\* AppendEntry with an entry written for a missing result as well
AppendEntryAlways(archive, k, file, p) ==
    Append(archive,
           [name |-> EntryName(p, Basename(file.filename, TxtExt)),
            data |-> file.results[p].analysis,
            file |-> k, provider |-> p])

\* controller lines 188-204, one provider of one file: append when the
\* slot is set.  file and provider record which iteration appended the entry.
AppendEntry(archive, k, file, p) ==
    IF file.results[p].set
    THEN Append(archive,
                [name |-> EntryName(p, Basename(file.filename, TxtExt)),
                 data |-> file.results[p].analysis,
                 file |-> k, provider |-> p])
    ELSE archive

\* controller lines 185-205: results.files.forEach
RECURSIVE ArchiveFrom(_, _, _)
ArchiveFrom(archive, files, k) ==
    IF k > Len(files) THEN archive
    ELSE ArchiveFrom(
            AppendEntry(
                AppendEntry(
                    AppendEntry(archive, k, files[k], "openai"),
                    k, files[k], "claude"),
                k, files[k], "gemini"),
            files, k + 1)

\* downloadResults (controller lines 152-216)
DownloadResults(id) ==
    /\ ctl = 0
    /\ ret' = [op |-> "downloadResults", id |-> id,
               val |-> IF id \in jobs
                       THEN [found |-> TRUE,
                             archive |-> ArchiveFrom(<<>>,
                                 GetMultiModelResults(heap[id]), 1)]
                       ELSE [found |-> FALSE, archive |-> <<>>]]
    /\ UNCHANGED <<jobs, heap, task, calls, ctl, sent, wire, now, began, client>>

\* ProcessingNames with every file that has not finished yet
RECURSIVE ProcessingNamesUnfinished(_)
ProcessingNamesUnfinished(files) ==
    IF files = <<>> THEN <<>>
    ELSE IF Head(files).status \in {"pending", "processing"}
         THEN <<Head(files).originalname>>
                 \o ProcessingNamesUnfinished(Tail(files))
         ELSE ProcessingNamesUnfinished(Tail(files))

\* getBatchProgress (lines 375-389): the names of the files in processing,
\* in the order of batch.files
RECURSIVE ProcessingNames(_)
ProcessingNames(files) ==
    IF files = <<>> THEN <<>>
    ELSE IF Head(files).status = "processing"
         THEN <<Head(files).originalname>> \o ProcessingNames(Tail(files))
         ELSE ProcessingNames(Tail(files))

\* BatchProgress with the metrics the batch was created with
BatchProgressInitialMetrics(batch) ==
    [status |-> batch.status,
     metrics |-> NewMetrics(Len(batch.files)),
     currentFiles |-> ProcessingNames(batch.files)]

BatchProgress(batch) ==
    [status |-> batch.status,
     metrics |-> batch.metrics,
     currentFiles |-> ProcessingNames(batch.files)]

\* what getBatchProgress(id) returns in the current state
ProgressOf(id) ==
    IF id \in jobs
    THEN [found |-> TRUE, progress |-> BatchProgress(heap[id])]
    ELSE [found |-> FALSE]

\* what getMultiModelResults(id) returns in the current state
ResultsOf(id) ==
    IF id \in jobs
    THEN [found |-> TRUE, files |-> GetMultiModelResults(heap[id])]
    ELSE [found |-> FALSE]

\* getAllBatches (lines 408-410): the registered batches in insertion order
RECURSIVE AllBatchesFrom(_)
AllBatchesFrom(id) ==
    IF id > Len(heap) THEN <<>>
    ELSE IF id \in jobs
         THEN <<[id |-> id, status |-> heap[id].status,
                 metrics |-> heap[id].metrics]>> \o AllBatchesFrom(id + 1)
         ELSE AllBatchesFrom(id + 1)

AllBatches == AllBatchesFrom(1)

\* the getBatchProgress handler (controller lines 125-149)
GetBatchProgress(id) ==
    /\ ctl = 0
    /\ ret' = [op |-> "getBatchProgress", id |-> id, resp |-> ProgressOf(id)]
    /\ UNCHANGED <<jobs, heap, task, calls, ctl, sent, wire, now, began, client>>

\* the getAllBatches handler (controller lines 219-251)
GetAllBatches ==
    /\ ctl = 0
    /\ ret' = [op |-> "getAllBatches", id |-> 0,
               resp |-> [batches |-> AllBatches, total |-> Len(AllBatches)]]
    /\ UNCHANGED <<jobs, heap, task, calls, ctl, sent, wire, now, began, client>>

\* ------------------------------------------------ ingress validation
\* A submission as processTranscripts receives it: the uploaded files
\* (name, mimetype, whether fs.readFile will succeed on the stored copy),
\* the two texts as character sequences (<<>> for an absent or empty
\* field), and for each provider whether its model name is given.
UpperTxtExt == <<".", "T", "X", "T">>
PdfExt == <<".", "p", "d", "f">>
FileKinds == {"plain", "upper", "pdf", "unreadable"}

ReqFile(k, kind) ==
    CASE kind = "plain" ->
           [originalname |-> FileName(k), mimetype |-> "text/plain",
            readable |-> TRUE]
      [] kind = "upper" ->
           [originalname |-> <<Letters[k]>> \o UpperTxtExt,
            mimetype |-> "application/octet-stream", readable |-> TRUE]
      [] kind = "pdf" ->
           [originalname |-> <<Letters[k]>> \o PdfExt,
            mimetype |-> "application/pdf", readable |-> TRUE]
      [] kind = "unreadable" ->
           [originalname |-> FileName(k), mimetype |-> "text/plain",
            readable |-> FALSE]

ReqFilesOfKinds(kinds) == [k \in 1..Len(kinds) |-> ReqFile(k, kinds[k])]

ReqFiles ==
    {ReqFilesOfKinds(kinds) :
        kinds \in UNION {[1..n -> FileKinds] : n \in 0..MaxTotalFiles}}

Rep(c, n) == [j \in 1..n |-> c]
MinTextLength == 20
GoodText == Rep("x", MinTextLength)
PaddedGoodText == <<" ">> \o Rep("x", MinTextLength) \o <<" ">>
PaddedShortText == <<" ">> \o Rep("x", MinTextLength - 1) \o <<" ">>
BlankText == Rep(" ", MinTextLength)
AllModels == [p \in Providers |-> TRUE]

GoodFields ==
    [jobDescription |-> PaddedGoodText, prompt |-> GoodText, models |-> AllModels]

ReqFields ==
    {[jobDescription |-> jd, prompt |-> GoodText, models |-> AllModels] :
        jd \in {PaddedGoodText, PaddedShortText, BlankText, <<>>}}
    \cup {[jobDescription |-> GoodText, prompt |-> pr, models |-> AllModels] :
        pr \in {PaddedShortText, <<>>}}
    \cup {[jobDescription |-> GoodText, prompt |-> GoodText,
           models |-> [AllModels EXCEPT ![p] = FALSE]] : p \in Providers}

Request(fs, f) ==
    [files |-> fs, jobDescription |-> f.jobDescription, prompt |-> f.prompt,
     models |-> f.models]

\* every list of files with good fields, and every choice of fields with
\* one file that can be read and with one that cannot
Requests ==
    {Request(fs, GoodFields) : fs \in ReqFiles}
    \cup {Request(ReqFilesOfKinds(<<kind>>), f) :
            kind \in {"plain", "unreadable"}, f \in ReqFields}

\* String.prototype.trim, for texts whose only white space is " "
RECURSIVE TrimLeft(_)
TrimLeft(str) ==
    IF str # <<>> /\ Head(str) = " " THEN TrimLeft(Tail(str)) ELSE str

RECURSIVE TrimRight(_)
TrimRight(str) ==
    IF str # <<>> /\ str[Len(str)] = " "
    THEN TrimRight(SubSeq(str, 1, Len(str) - 1))
    ELSE str

Trim(str) == TrimRight(TrimLeft(str))

\* String.prototype.toLowerCase on the characters file names are made of
ToLower(c) ==
    CASE c = "T" -> "t"
      [] c = "X" -> "x"
      [] OTHER -> c

LowerCase(str) == [j \in 1..Len(str) |-> ToLower(str[j])]

\* controller lines 42-46
IsTxt(file) ==
    \/ file.mimetype = "text/plain"
    \/ EndsWith(LowerCase(file.originalname), TxtExt)

TxtFiles(files) == SelectSeq(files, IsTxt)

\* Validate with the lengths taken before trimming
ValidateUntrimmed(req) ==
    IF Len(req.files) = 0 THEN "No files uploaded"
    ELSE IF Len(TxtFiles(req.files)) = 0 THEN "No valid TXT files found"
    ELSE IF req.jobDescription = <<>> \/ Len(req.jobDescription) < MinTextLength
         THEN "Job description must be at least 20 characters"
    ELSE IF req.prompt = <<>> \/ Len(req.prompt) < MinTextLength
         THEN "Prompt must be at least 20 characters"
    ELSE IF \E p \in Providers : ~req.models[p]
         THEN "All model names are required"
    ELSE "ok"

\* controller lines 34-80: the error of the first test that fails
Validate(req) ==
    IF Len(req.files) = 0 THEN "No files uploaded"
    ELSE IF Len(TxtFiles(req.files)) = 0 THEN "No valid TXT files found"
    ELSE IF req.jobDescription = <<>>
            \/ Len(Trim(req.jobDescription)) < MinTextLength
         THEN "Job description must be at least 20 characters"
    ELSE IF req.prompt = <<>> \/ Len(Trim(req.prompt)) < MinTextLength
         THEN "Prompt must be at least 20 characters"
    ELSE IF \E p \in Providers : ~req.models[p]
         THEN "All model names are required"
    ELSE "ok"

ErrorResponse(code, error) == [code |-> code, success |-> FALSE, error |-> error]

ReadError == "ENOENT: no such file or directory"

RECURSIVE ReadableOnly(_)
ReadableOnly(files) ==
    IF files = <<>> THEN <<>>
    ELSE IF Head(files).readable
         THEN <<Head(files).originalname>> \o ReadableOnly(Tail(files))
         ELSE ReadableOnly(Tail(files))

\* ReadFiles with a file that cannot be read left out of the batch
ReadFilesSkipsUnreadable(files) ==
    [ok |-> TRUE, names |-> ReadableOnly(files)]

\* createBatch lines 48-61: Promise.all over the reads rejects when one
\* read rejects, before the batch object is built
ReadFiles(files) ==
    IF \E k \in 1..Len(files) : ~files[k].readable
    THEN [ok |-> FALSE, names |-> <<>>]
    ELSE [ok |-> TRUE, names |-> [k \in 1..Len(files) |-> files[k].originalname]]

\* controller lines 82-90: the configuration handed to createBatch
JobConfigOf(req) ==
    JobConfig(Trim(req.jobDescription), Trim(req.prompt), DefaultModels)

\* what processTranscripts does with a submission: 400 when a test of
\* lines 34-80 fails, 500 when createBatch rejects (lines 115-121), else
\* the batch is created from the names of the kept files
SubmissionOutcome(req) ==
    LET error == Validate(req)
        read == ReadFiles(TxtFiles(req.files))
    IN  IF error # "ok"
        THEN [code |-> 400, error |-> error, names |-> <<>>]
        ELSE IF ~read.ok
        THEN [code |-> 500, error |-> ReadError, names |-> <<>>]
        ELSE [code |-> 200, error |-> "", names |-> read.names]

\* processTranscripts up to the return of createBatch (controller lines
\* 28-99 and 115-121, createBatch lines 41-91)
ProcessTranscripts(req) ==
    /\ ctl = 0
    /\ LET out == SubmissionOutcome(req)
       IN  IF out.code # 200
           THEN /\ ret' = [op |-> "processTranscripts", id |-> 0,
                           resp |-> ErrorResponse(out.code, out.error)]
                /\ UNCHANGED <<jobs, heap, task, calls, ctl, sent, wire, now, began, client>>
           ELSE /\ Len(heap) < MaxBatches
                /\ FilesIn(heap) + Len(out.names) <= MaxTotalFiles
                /\ Register(out.names, JobConfigOf(req))
                /\ ctl' = Len(heap) + 1
                /\ ret' = [op |-> "createBatch", id |-> Len(heap) + 1,
                           val |-> TRUE]

\* --------------------------------- TranscriptProcessor called directly
\* createBatch called by any code holding the processor: the job
\* configuration may be missing, and startProcessing need not follow
ApiCreateBatch(files, jobConfig) ==
    /\ ctl = 0
    /\ Len(heap) < MaxBatches
    /\ FilesIn(heap) + Len(files) <= MaxTotalFiles
    /\ Register(files, jobConfig)
    /\ ret' = [op |-> "createBatch", id |-> Len(heap) + 1, val |-> TRUE]
    /\ UNCHANGED ctl

\* startProcessing called with any id; it gets as far as the loop at most
\* once for a batch
ApiStartProcessing(id) ==
    /\ ctl = 0
    /\ (id \in jobs /\ HasConfig(id)) => task[id].pc = "idle"
    /\ Start(id)
    /\ UNCHANGED <<ctl, sent>>

\* The steps that change the tracker's state.
Next ==
    \/ \E files \in Uploads : CreateBatch(files)
    \/ \E id \in BatchIds : StartProcessing(id)
    \/ \E id \in BatchIds, p \in Providers, ok \in BOOLEAN : Settle(id, p, ok)
    \/ \E id \in BatchIds : DelayElapsed(id)
    \/ \E id \in BatchIds : CancelBatch(id)
    \/ \E id \in BatchIds : DeleteBatch(id)

Spec == Init /\ [][Next]_vars

\* The same with the read-only download handler, which may run between any
\* two of those steps.
NextDownload ==
    \/ Next
    \/ \E id \in BatchIds : DownloadResults(id)

SpecDownload == Init /\ [][NextDownload]_vars

\* The same with the read-only progress and listing handlers.
NextQuery ==
    \/ Next
    \/ \E id \in BatchIds : GetBatchProgress(id)
    \/ GetAllBatches

SpecQuery == Init /\ [][NextQuery]_vars

\* The tracker driven by whole submissions, validation included.
NextIngress ==
    \/ \E req \in Requests : ProcessTranscripts(req)
    \/ \E id \in BatchIds : StartProcessing(id)
    \/ \E id \in BatchIds, p \in Providers, ok \in BOOLEAN : Settle(id, p, ok)
    \/ \E id \in BatchIds : DelayElapsed(id)
    \/ \E id \in BatchIds : CancelBatch(id)
    \/ \E id \in BatchIds : DeleteBatch(id)

SpecIngress == Init /\ [][NextIngress]_vars

\* The same as Next with a try block that may throw.
NextFault ==
    \/ Next
    \/ \E id \in BatchIds : StartProcessingThrows(id)
    \/ \E id \in BatchIds, p \in Providers, ok \in BOOLEAN,
          point \in ThrowPoints : SettleThrows(id, p, ok, point)
    \/ \E id \in BatchIds : DelayElapsedThrows(id)

SpecFault == Init /\ [][NextFault]_vars

\* Every provider call settles and every timer fires; the run of the
\* thread in which createBatch returned goes on to call startProcessing.
StartsEventually(id) == StartProcessing(id) \/ StartProcessingThrows(id)

SettlesEventually(id, p) ==
    \E ok \in BOOLEAN :
        \/ Settle(id, p, ok)
        \/ \E point \in ThrowPoints : SettleThrows(id, p, ok, point)

ElapsesEventually(id) == DelayElapsed(id) \/ DelayElapsedThrows(id)

SpecLive ==
    /\ SpecFault
    /\ \A id \in BatchIds :
          /\ WF_vars(StartsEventually(id))
          /\ WF_vars(ElapsesEventually(id))
          /\ \A p \in Providers : WF_vars(SettlesEventually(id, p))

\* The tracker under every job configuration a submission can carry.
NextRequests ==
    \/ \E files \in Uploads, jobConfig \in JobConfigs :
          CreateBatchWith(files, jobConfig)
    \/ \E id \in BatchIds : StartProcessing(id)
    \/ \E id \in BatchIds, p \in Providers, ok \in BOOLEAN : Settle(id, p, ok)
    \/ \E id \in BatchIds : DelayElapsed(id)
    \/ \E id \in BatchIds : CancelBatch(id)
    \/ \E id \in BatchIds : DeleteBatch(id)

SpecRequests == Init /\ [][NextRequests]_vars

\* Submissions whose files may share an original name or differ only in
\* the .txt extension (multer stores every upload under a name of its own
\* and keeps originalname as the client sent it), with the download
\* handler.
NameChoices == {FileName(1), <<Letters[1]>>, FileName(2)}
NamedUploads == UNION {[1..n -> NameChoices] : n \in 1..MaxTotalFiles}

NextNames ==
    \/ \E files \in NamedUploads : CreateBatch(files)
    \/ \E id \in BatchIds : StartProcessing(id)
    \/ \E id \in BatchIds, p \in Providers, ok \in BOOLEAN : Settle(id, p, ok)
    \/ \E id \in BatchIds : DelayElapsed(id)
    \/ \E id \in BatchIds : CancelBatch(id)
    \/ \E id \in BatchIds : DeleteBatch(id)
    \/ \E id \in BatchIds : DownloadResults(id)

SpecNames == Init /\ [][NextNames]_vars

\* The service configured with CONCURRENT_PROCESSING=1 (config line 48;
\* the default is 10) and one more single-file submission than that
\* limit.  The constructor hands the limit to pLimit (line 30) and keeps
\* the limiter in this.limit, which no method uses.
ConcurrentProcessing == 1
LimitBatchIds == 1..(ConcurrentProcessing + 1)

CreateSingleFileBatch ==
    /\ ctl = 0
    /\ Len(heap) < ConcurrentProcessing + 1
    /\ Register(<<FileName(1)>>, DefaultConfig)
    /\ ctl' = Len(heap) + 1
    /\ ret' = [op |-> "createBatch", id |-> Len(heap) + 1, val |-> TRUE]

NextLimit ==
    \/ CreateSingleFileBatch
    \/ \E id \in LimitBatchIds : StartProcessing(id)
    \/ \E id \in LimitBatchIds, p \in Providers, ok \in BOOLEAN :
          Settle(id, p, ok)
    \/ \E id \in LimitBatchIds : CancelBatch(id)
    \/ \E id \in LimitBatchIds : DeleteBatch(id)

SpecLimit == Init /\ [][NextLimit]_vars

\* One submission more than MaxBatches, with one file more in all: the
\* controller creates and starts a batch per submission (controller lines
\* 99-104) and waits for none of them, so their loops interleave.
PairBatchIds == 1..(MaxBatches + 1)

CreateNextBatch(files) ==
    /\ ctl = 0
    /\ Len(heap) < MaxBatches + 1
    /\ FilesIn(heap) + Len(files) <= MaxTotalFiles + 1
    /\ Register(files, DefaultConfig)
    /\ ctl' = Len(heap) + 1
    /\ ret' = [op |-> "createBatch", id |-> Len(heap) + 1, val |-> TRUE]

NextPair ==
    \/ \E files \in Uploads : CreateNextBatch(files)
    \/ \E id \in PairBatchIds : StartProcessing(id)
    \/ \E id \in PairBatchIds, p \in Providers, ok \in BOOLEAN :
          Settle(id, p, ok)
    \/ \E id \in PairBatchIds : DelayElapsed(id)
    \/ \E id \in PairBatchIds : CancelBatch(id)
    \/ \E id \in PairBatchIds : DeleteBatch(id)

SpecPair == Init /\ [][NextPair]_vars

\* The tracker with a clock that advances between the runs of the thread.
\* Two readings of the clock within one run are taken as equal, and so
\* are those of createBatch and of the startProcessing call that follows
\* it in the controller.
Tick ==
    /\ ctl = 0
    /\ now < MaxTime
    /\ now' = now + 1
    /\ ret' = NoRet
    /\ UNCHANGED <<jobs, heap, task, calls, ctl, sent, wire, began, client>>

NextTime ==
    \/ Next
    \/ Tick

SpecTime == Init /\ [][NextTime]_vars

\* ------------------------------------------------- the page (app.js)
\* A progress request under way: the batch id put in the URL when it was
\* sent, and the response once the server has made it.  Of a response the
\* page's control flow reads response.ok and result.data.status; the
\* metrics only go to the progress bars.
NoReply == [code |-> 0, status |-> ""]

\* the getBatchProgress handler as the page sees it (controller lines
\* 125-141)
ProgressResponse(id) ==
    IF ProgressOf(id).found
    THEN [code |-> 200, status |-> ProgressOf(id).progress.status]
    ELSE [code |-> 404, status |-> ""]

\* updateProgress up to its fetch (app.js lines 258-264)
SendPoll(c) ==
    IF c.currentBatchId = 0 THEN c
    ELSE [c EXCEPT !.polls = @ \cup {[id |-> c.currentBatchId,
                                      resp |-> NoReply]}]

\* startProgressMonitoring (app.js lines 245-256): the timer held in
\* progressInterval is cleared, a new one is set and kept there, and
\* updateProgress is called once
StartProgressMonitoring(c) ==
    SendPoll([c EXCEPT !.progressInterval = @ + 1, !.running = TRUE])

\* updateProgress from the arrival of the response on (app.js lines
\* 265-320): clearInterval is called on the timer progressInterval holds
\* now
HandleProgress(c, resp) ==
    IF resp.code # 200 THEN c
    ELSE IF resp.status = "completed"
    THEN [c EXCEPT !.running = FALSE, !.downloadSection = "shown"]
    ELSE IF resp.status = "failed"
    THEN [c EXCEPT !.running = FALSE]
    ELSE c

\* the page's startProcessing from the arrival of the 200 response to its
\* submission on (app.js lines 226-239); the responses to the page's
\* submissions arrive in the order of the submissions
ClientStartProcessing(id) ==
    /\ id \in Allocated
    /\ id = client.currentBatchId + 1
    /\ sent[id].code = 200
    /\ LET c == StartProgressMonitoring([client EXCEPT !.currentBatchId = id])
       IN  /\ Cardinality(c.polls) <= MaxPolls
           /\ client' = c
    /\ ret' = NoRet
    /\ UNCHANGED <<jobs, heap, task, calls, ctl, sent, wire, now, began>>

\* the interval timer fires (app.js lines 250-252)
TimerFires ==
    /\ client.running
    /\ LET c == SendPoll(client)
       IN  /\ Cardinality(c.polls) <= MaxPolls
           /\ client' = c
    /\ ret' = NoRet
    /\ UNCHANGED <<jobs, heap, task, calls, ctl, sent, wire, now, began>>

\* the server handles a progress request of the page
ServePoll(poll) ==
    /\ ctl = 0
    /\ poll \in client.polls
    /\ poll.resp = NoReply
    /\ client' = [client EXCEPT
                    !.polls = (@ \ {poll})
                        \cup {[poll EXCEPT !.resp = ProgressResponse(poll.id)]}]
    /\ ret' = [op |-> "getBatchProgress", id |-> poll.id,
               resp |-> ProgressOf(poll.id)]
    /\ UNCHANGED <<jobs, heap, task, calls, ctl, sent, wire, now, began>>

\* the response to a progress request arrives at the page
ReceiveProgress(poll) ==
    /\ poll \in client.polls
    /\ poll.resp # NoReply
    /\ client' = HandleProgress([client EXCEPT !.polls = @ \ {poll}],
                                poll.resp)
    /\ ret' = NoRet
    /\ UNCHANGED <<jobs, heap, task, calls, ctl, sent, wire, now, began>>

PollsUnderWay ==
    {[id |-> id, resp |-> resp] :
        id \in 1..(MaxBatches + 1),
        resp \in {NoReply, [code |-> 404, status |-> ""]}
                   \cup {[code |-> 200, status |-> st] :
                           st \in {"created", "processing", "completed",
                                   "failed", "cancelled"}}}

ClientNext ==
    \/ TimerFires
    \/ \E poll \in PollsUnderWay : ServePoll(poll)
    \/ \E poll \in PollsUnderWay : ReceiveProgress(poll)

\* The page used for two submissions of one file each, one after the
\* other.
NextPage ==
    \/ CreateSingleFileBatch
    \/ \E id \in LimitBatchIds : StartProcessing(id)
    \/ \E id \in LimitBatchIds, p \in Providers, ok \in BOOLEAN :
          Settle(id, p, ok)
    \/ \E id \in LimitBatchIds : ClientStartProcessing(id)
    \/ ClientNext

SpecPage == Init /\ [][NextPage]_vars

\* The page used for the submissions of Next, with the batch cancelled or
\* deleted by another client of the API at any time.  The responses
\* arrive, the timers fire and the provider calls settle.
NextPolling ==
    \/ Next
    \/ \E id \in BatchIds : ClientStartProcessing(id)
    \/ ClientNext

SpecPolling ==
    /\ Init /\ [][NextPolling]_vars
    /\ \A id \in BatchIds :
          /\ WF_vars(StartProcessing(id))
          /\ WF_vars(DelayElapsed(id))
          /\ \A p \in Providers :
                WF_vars(\E ok \in BOOLEAN : Settle(id, p, ok))
          /\ WF_vars(ClientStartProcessing(id))
    /\ WF_vars(TimerFires)
    /\ \A poll \in PollsUnderWay :
          WF_vars(ServePoll(poll)) /\ WF_vars(ReceiveProgress(poll))

\* The processor driven through its methods, in any order.
NextApi ==
    \/ \E files \in Uploads, jobConfig \in {DefaultConfig, NoConfig} :
          ApiCreateBatch(files, jobConfig)
    \/ \E id \in BatchIds : ApiStartProcessing(id)
    \/ \E id \in BatchIds, p \in Providers, ok \in BOOLEAN : Settle(id, p, ok)
    \/ \E id \in BatchIds : DelayElapsed(id)
    \/ \E id \in BatchIds : CancelBatch(id)
    \/ \E id \in BatchIds : DeleteBatch(id)
    \/ \E id \in BatchIds, p \in Providers, ok \in BOOLEAN,
          point \in ThrowPoints : SettleThrows(id, p, ok, point)
    \/ \E id \in BatchIds : DelayElapsedThrows(id)

SpecApi == Init /\ [][NextApi]_vars

\* ------------------------------------------------------------ shorthands
Terminal == {"completed", "failed", "cancelled"}
FileTerminal == {"completed", "failed"}
FilesOf(id) == 1..Len(heap[id].files)
MetricsOf(id) == heap[id].metrics
AllRejected(cs) == \A p \in Providers : cs[p].st = "rejected"
Issued(cs) == \E p \in Providers : cs[p].st # "none"
EveryCallSettled(cs) == \A p \in Providers : cs[p].st \in {"fulfilled", "rejected"}
Successes(cs) == {p \in Providers : cs[p].st = "fulfilled"}
SucceededOn(id, p) == {k \in FilesOf(id) : calls[id][k][p].st = "fulfilled"}
FailsValidation(req) ==
    \/ Len(req.files) = 0
    \/ \A k \in 1..Len(req.files) : ~IsTxt(req.files[k])
    \/ Len(Trim(req.jobDescription)) < MinTextLength
    \/ Len(Trim(req.prompt)) < MinTextLength
    \/ \E p \in Providers : ~req.models[p]
HasUnreadableFile(req) ==
    \E k \in 1..Len(req.files) : IsTxt(req.files[k]) /\ ~req.files[k].readable
InvalidRequestsGet400 ==
    \A req \in Requests :
        FailsValidation(req) => SubmissionOutcome(req).code = 400
UnreadableRequestsGet500 ==
    \A req \in Requests :
        (~FailsValidation(req) /\ HasUnreadableFile(req))
          => SubmissionOutcome(req).code = 500
TrackerUnchanged ==
    /\ jobs' = jobs
    /\ heap' = heap
    /\ task' = task
    /\ calls' = calls
    /\ ctl' = ctl
    /\ sent' = sent
    /\ wire' = wire
WithStatus(id, status) ==
    {k \in FilesOf(id) : heap[id].files[k].status = status}
WithResult(id, p) == {k \in FilesOf(id) : heap[id].files[k].results[p].set}
InProcessing ==
    UNION {{<<id, k>> : k \in {j \in FilesOf(id) :
                                 heap[id].files[j].status = "processing"}} :
           id \in Allocated}
PresentResults(id) ==
    {<<k, p>> \in FilesOf(id) \X Providers : heap[id].files[k].results[p].set}

\* ================================================================ claims

\* C1: for every batch in the registry, in every state between suspension
\* points, pending + processing + completed + failed = total.
C1_CountersSumToTotal ==
    \A id \in jobs :
        LET m == MetricsOf(id)
        IN  m.pending + m.processing + m.completed + m.failed = m.total

\* a registered batch with one file finished, one in processing
C1_Witness ==
    \E id \in jobs :
        /\ MetricsOf(id).completed + MetricsOf(id).failed = 1
        /\ MetricsOf(id).processing = 1
        /\ MetricsOf(id).pending = 0

\* C2: for every batch and provider, no step decreases the provider's
\* completion counter, and the counter never exceeds metrics.total.
C2_ProviderCountersMonotoneBounded ==
    [][\A id \in Allocated : \A p \in Providers :
          /\ CompleteCount(heap'[id].metrics, p)
                >= CompleteCount(heap[id].metrics, p)
          /\ CompleteCount(heap'[id].metrics, p) <= heap'[id].metrics.total
          /\ heap'[id].metrics.total = heap[id].metrics.total]_vars

\* a provider that succeeded on both files of a batch: counter = total = 2
C2_Witness ==
    \E id \in Allocated : \E p \in Providers :
        /\ MetricsOf(id).total = 2
        /\ CompleteCount(MetricsOf(id), p) = 2

\* C3: a result slot that is set is left as it is by every step.
C3_ResultNeverOverwritten ==
    [][\A id \in Allocated : \A k \in FilesOf(id) : \A p \in Providers :
          heap[id].files[k].results[p].set
            => heap'[id].files[k].results[p] = heap[id].files[k].results[p]]_vars

\* the first file's slot is set and the second file has been processed too
C3_Witness ==
    \E id \in Allocated : \E p \in Providers :
        /\ Len(heap[id].files) = 2
        /\ heap[id].files[1].results[p].set
        /\ heap[id].files[2].results[p].set
        /\ heap[id].files[1].originalname # heap[id].files[2].originalname

\* C4: once the status of a batch is terminal (completed, failed,
\* cancelled), no step changes it.
C4_TerminalStatusIsFinal ==
    [][\A id \in Allocated :
          heap[id].status \in Terminal
            => heap'[id].status = heap[id].status]_vars

\* C5: a file whose three provider calls all failed has status failed and
\* counts exactly once in metrics.failed; the batch is never failed for it,
\* and is completed when its loop has ended.
C5_AllProvidersFailed ==
    \A id \in Allocated :
        /\ \A k \in FilesOf(id) :
              AllRejected(calls[id][k])
                => /\ heap[id].files[k].status = "failed"
                   /\ heap[id].files[k].error = AllFailedError
        /\ MetricsOf(id).failed
             = Cardinality({k \in FilesOf(id) : AllRejected(calls[id][k])})
        /\ heap[id].status # "failed"
        /\ task[id].pc = "done" => heap[id].status = "completed"

\* the loop of a batch has ended with every file failed
C5_Witness ==
    \E id \in Allocated :
        /\ task[id].pc = "done"
        /\ MetricsOf(id).total = 2
        /\ MetricsOf(id).failed = 2
        /\ \A k \in FilesOf(id) : AllRejected(calls[id][k])
        /\ heap[id].status = "completed"

\* C6: a file for which at least one provider call succeeded has status
\* completed and no error text, and counts exactly once in
\* metrics.completed.
C6_SomeProviderSucceeded ==
    \A id \in Allocated :
        /\ \A k \in FilesOf(id) :
              (EveryCallSettled(calls[id][k]) /\ Successes(calls[id][k]) # {})
                => /\ heap[id].files[k].status = "completed"
                   /\ heap[id].files[k].error = ""
        /\ MetricsOf(id).completed
             = Cardinality({k \in FilesOf(id) :
                              /\ EveryCallSettled(calls[id][k])
                              /\ Successes(calls[id][k]) # {}})

\* a file completed although two of its providers failed
C6_Witness ==
    \E id \in Allocated : \E k \in FilesOf(id) :
        /\ EveryCallSettled(calls[id][k])
        /\ Cardinality(Successes(calls[id][k])) = 1
        /\ heap[id].files[k].status = "completed"
        /\ MetricsOf(id).completed = 1

\* C7: a provider call for file k+1 exists only when the three calls of
\* file k have settled and file k has a terminal status.
C7_FilesInSubmissionOrder ==
    \A id \in Allocated : \A k \in FilesOf(id) :
        (k > 1 /\ Issued(calls[id][k]))
          => /\ EveryCallSettled(calls[id][k - 1])
             /\ heap[id].files[k - 1].status \in FileTerminal

\* the calls of the second file are in flight
C7_Witness ==
    \E id \in Allocated :
        /\ Len(heap[id].files) = 2
        /\ \A p \in Providers : calls[id][2][p].st = "pending"
        /\ heap[id].files[2].status = "processing"

\* C8: deleteBatch on a registered batch in status processing returns
\* false and leaves the registry and every batch object as they were.
C8_DeleteWhileProcessing ==
    [][\A id \in BatchIds :
          (/\ ret'.op = "deleteBatch" /\ ret'.id = id
           /\ id \in jobs /\ heap[id].status = "processing")
            => /\ ret'.val = FALSE
               /\ jobs' = jobs
               /\ heap' = heap]_vars

\* deleteBatch has just been refused for a batch in processing
C8_Witness ==
    /\ ret.op = "deleteBatch"
    /\ ret.val = FALSE
    /\ ret.id \in jobs
    /\ heap[ret.id].status = "processing"

\* C9: cancelBatch on a completed or cancelled batch, or on an id that is
\* not registered, returns false and changes no batch's status.
C9_CancelRefused ==
    [][\A id \in BatchIds :
          (/\ ret'.op = "cancelBatch" /\ ret'.id = id
           /\ \/ id \notin jobs
              \/ heap[id].status \in {"completed", "cancelled"})
            => /\ ret'.val = FALSE
               /\ \A j \in Allocated : heap'[j].status = heap[j].status]_vars

\* cancelBatch has just been refused for a registered completed batch
C9_Witness ==
    /\ ret.op = "cancelBatch"
    /\ ret.val = FALSE
    /\ ret.id \in jobs
    /\ heap[ret.id].status = "completed"

\* C10: the archive of a batch has exactly one entry for each (file,
\* provider) whose result slot is set, holding that result's text, and no
\* other entry.
C10_ArchiveEntriesAreTheResults ==
    (ret.op = "downloadResults" /\ ret.val.found)
      => LET a == ret.val.archive
         IN  /\ Len(a) = Cardinality(PresentResults(ret.id))
             /\ {<<a[n].file, a[n].provider>> : n \in 1..Len(a)}
                  = PresentResults(ret.id)
             /\ \A n \in 1..Len(a) :
                   a[n].data
                     = heap[ret.id].files[a[n].file].results[a[n].provider].analysis

\* two files with five results: an archive of five entries
C10_Witness ==
    /\ ret.op = "downloadResults"
    /\ ret.val.found
    /\ Len(heap[ret.id].files) = 2
    /\ Cardinality(PresentResults(ret.id)) = 5
    /\ ~heap[ret.id].files[1].results["gemini"].set
    /\ Len(ret.val.archive) = 5

\* C11: when the loop of startProcessing has ended for a batch that is
\* registered, getBatchProgress reports status completed, pending = 0,
\* processing = 0, completed + failed = total, and for each provider a
\* completion counter equal to the number of files on which that
\* provider's call succeeded.
C11_ProgressAfterLoop ==
    (/\ ret.op = "getBatchProgress"
     /\ ret.resp.found
     /\ task[ret.id].pc = "done")
      => LET g == ret.resp.progress
         IN  /\ g.status = "completed"
             /\ g.metrics.pending = 0
             /\ g.metrics.processing = 0
             /\ g.metrics.completed + g.metrics.failed = g.metrics.total
             /\ g.metrics.total = Len(heap[ret.id].files)
             /\ g.currentFiles = <<>>
             /\ \A p \in Providers :
                   CompleteCount(g.metrics, p)
                     = Cardinality(SucceededOn(ret.id, p))

\* progress read after the loop of a two-file batch on which openai
\* succeeded twice, claude once and gemini never
C11_Witness ==
    /\ ret.op = "getBatchProgress"
    /\ ret.resp.found
    /\ task[ret.id].pc = "done"
    /\ ret.resp.progress.metrics.total = 2
    /\ ret.resp.progress.metrics.openaiComplete = 2
    /\ ret.resp.progress.metrics.claudeComplete = 1
    /\ ret.resp.progress.metrics.geminiComplete = 0

\* C12: a submission with no files, no .txt files, a job description or
\* prompt shorter than 20 characters after trimming, or a missing model
\* name is answered with a 400 error in the step that receives it; that
\* step leaves the registry, every batch, every task and every provider
\* call as they were, so the number of listed batches is unchanged and
\* startProcessing is not invoked.
C12_InvalidSubmissionRejected ==
    [][/\ InvalidRequestsGet400
       /\ (ret'.op = "processTranscripts" /\ ret'.resp.code = 400)
            => /\ TrackerUnchanged
               /\ ctl' = 0
               /\ Len(AllBatches') = Len(AllBatches)]_vars

\* a submission with a padded 19-character job description has just been
\* rejected while a batch is in processing
C12_Witness ==
    /\ ret.op = "processTranscripts"
    /\ ret.resp.code = 400
    /\ ret.resp.error = "Job description must be at least 20 characters"
    /\ \E id \in jobs : heap[id].status = "processing"

\* C17: a valid submission of which one kept file cannot be read is
\* answered with an error and the registry, every batch, every task and
\* every provider call are as before: no batch is registered, not even
\* one holding the files that could be read.
C17_ReadFailureRegistersNothing ==
    [][/\ UnreadableRequestsGet500
       /\ (ret'.op = "processTranscripts" /\ ret'.resp.code = 500)
            => /\ TrackerUnchanged
               /\ ret'.resp.error = ReadError]_vars

\* a submission has just failed on reading while a batch is registered
C17_Witness ==
    /\ ret.op = "processTranscripts"
    /\ ret.resp.code = 500
    /\ jobs # {}

\* C13: cancelBatch leaves the loop of startProcessing and the provider
\* calls in flight as they are, and a cancelled batch is processed like any
\* other: the file in processing finishes when its calls have settled, the
\* next file of a registered batch is started when the delay has elapsed,
\* and at the end of the loop the status cancelled becomes completed.
C13_CancelDoesNotInterrupt ==
    [][/\ (ret'.op = "cancelBatch") => (task' = task /\ calls' = calls)
       /\ \A id \in Allocated :
            (heap[id].status = "cancelled" /\ task'[id] # task[id])
              => LET i == task[id].i
                     n == Len(heap[id].files)
                 IN  /\ task[id].pc = "calls"
                          => /\ heap'[id].files[i].status \in FileTerminal
                             /\ task'[id].pc = IF i < n THEN "delay" ELSE "done"
                             /\ heap'[id].status
                                  = IF i < n THEN "cancelled" ELSE "completed"
                     /\ (task[id].pc = "delay" /\ id \in jobs)
                          => /\ task'[id] = [pc |-> "calls", i |-> i + 1]
                             /\ heap'[id].files[i + 1].status = "processing"
                             /\ \A p \in Providers :
                                   calls'[id][i + 1][p].st = "pending"]_vars

\* a registered batch is cancelled, its first file is finished and a call
\* for its second file has settled
C13_Witness ==
    \E id \in jobs :
        /\ heap[id].status = "cancelled"
        /\ task[id] = [pc |-> "calls", i |-> 2]
        /\ heap[id].files[1].status \in FileTerminal
        /\ \E p \in Providers : calls[id][2][p].st = "fulfilled"

\* C14: deleteBatch returns true exactly when the id is registered and the
\* batch is not in processing; it then removes the id from the registry and
\* nothing else, after which getBatchProgress and getMultiModelResults find
\* nothing under the id and getAllBatches does not list it; otherwise it
\* changes nothing.  An id once removed is never registered again.
C14_DeleteRemovesFromRegistry ==
    [][/\ \A id \in BatchIds :
            (ret'.op = "deleteBatch" /\ ret'.id = id)
              => /\ ret'.val = (id \in jobs /\ heap[id].status # "processing")
                 /\ heap' = heap /\ task' = task /\ calls' = calls
                 /\ ret'.val
                      => /\ jobs' = jobs \ {id}
                         /\ ~ProgressOf(id)'.found
                         /\ ~ResultsOf(id)'.found
                         /\ \A n \in 1..Len(AllBatches') : AllBatches'[n].id # id
                         /\ Len(AllBatches') = Len(AllBatches) - 1
                 /\ ~ret'.val => jobs' = jobs
       /\ \A id \in Allocated : id \notin jobs => id \notin jobs']_vars

\* a cancelled batch has just been deleted while its loop is still running
C14_Witness ==
    /\ ret.op = "deleteBatch"
    /\ ret.val = TRUE
    /\ ret.id \in Allocated
    /\ heap[ret.id].status = "cancelled"
    /\ task[ret.id].pc = "calls"
    /\ ~ProgressOf(ret.id).found
    /\ AllBatches = <<>>

\* C16: the step in which createBatch returns has registered one new
\* batch under an id not used before, with status created, the submitted
\* files in submission order, every file pending with no result and no
\* error, total = pending = number of files and every other counter 0;
\* the batches that existed are unchanged.
C16_CreateBatchInitialState ==
    [][(ret'.op = "createBatch")
          => LET id == ret'.id
                 b == heap'[id]
                 n == Len(b.files)
             IN  /\ id \notin Allocated
                 /\ jobs' = jobs \cup {id}
                 /\ \A j \in Allocated : heap'[j] = heap[j]
                 /\ b.status = "created"
                 /\ n >= 1
                 /\ \A k \in 1..n :
                       /\ b.files[k].originalname = FileName(k)
                       /\ b.files[k].status = "pending"
                       /\ b.files[k].error = ""
                       /\ \A p \in Providers : ~b.files[k].results[p].set
                 /\ b.metrics.total = n
                 /\ b.metrics.pending = n
                 /\ b.metrics.processing = 0
                 /\ b.metrics.completed = 0
                 /\ b.metrics.failed = 0
                 /\ \A p \in Providers : CompleteCount(b.metrics, p) = 0]_vars

\* createBatch has just returned for a submission of two files
C16_Witness ==
    /\ ret.op = "createBatch"
    /\ ret.id \in jobs
    /\ heap[ret.id].status = "created"
    /\ Len(heap[ret.id].files) = 2

\* C15: cancelBatch on a registered batch whose status is created,
\* processing or failed returns true and sets the status to cancelled; the
\* batch's metrics and files, every other batch, the registry, the tasks
\* and the provider calls are as before.
C15_CancelSetsOnlyStatus ==
    [][\A id \in BatchIds :
          (/\ ret'.op = "cancelBatch" /\ ret'.id = id
           /\ id \in jobs
           /\ heap[id].status \in {"created", "processing", "failed"})
            => /\ ret'.val = TRUE
               /\ heap' = [heap EXCEPT ![id].status = "cancelled"]
               /\ jobs' = jobs
               /\ task' = task
               /\ calls' = calls
               /\ sent' = sent]_vars

\* a batch that had failed has just been cancelled
C15_Witness ==
    /\ ret.op = "cancelBatch"
    /\ ret.val = TRUE
    /\ ret.id \in jobs
    /\ heap[ret.id].status = "cancelled"
    /\ task[ret.id].pc = "thrown"

\* C18: startProcessing throws "not found" exactly for an id that is not
\* registered and "no config" exactly for a registered batch without job
\* configuration; the step that throws changes no batch, task or provider
\* call, and a task leaves its initial position only for a registered
\* batch that has a job configuration.
C18_StartProcessingErrors ==
    [][\A id \in BatchIds :
          /\ (ret'.op = "startProcessing" /\ ret'.id = id
                 /\ ret'.error \in {"not found", "no config"})
               => /\ TrackerUnchanged
                  /\ (ret'.error = "not found") = (id \notin jobs)
                  /\ (ret'.error = "no config")
                       = (id \in jobs /\ ~heap[id].jobConfig.set)
          /\ (id \in Allocated /\ task[id].pc = "idle"
                 /\ (task'[id].pc # "idle" \/ heap'[id].status = "processing"))
               => (id \in jobs /\ heap[id].jobConfig.set)]_vars

\* startProcessing has just thrown for a batch created without job
\* configuration
C18_Witness ==
    /\ ret.op = "startProcessing"
    /\ ret.error = "no config"
    /\ ret.id \in jobs
    /\ heap[ret.id].status = "created"
    /\ calls[ret.id][1] = NoCalls

\* C19: when every provider call settles and every timer fires, a batch
\* in status processing eventually has status completed, failed or
\* cancelled.
C19_ProcessingEnds ==
    \A id \in BatchIds :
        (id \in Allocated /\ heap[id].status = "processing")
          ~> (id \in Allocated
              /\ heap[id].status \in {"completed", "failed", "cancelled"})

\* the loop of a two-file batch has ended and the batch is completed
C19_Witness ==
    \E id \in Allocated :
        /\ Len(heap[id].files) = 2
        /\ task[id].pc = "done"
        /\ heap[id].status = "completed"
        /\ \A k \in FilesOf(id) : EveryCallSettled(calls[id][k])

\* C20: the step in which an exception leaves the loop sets the batch's
\* status to failed and has the error logged by the caller of
\* startProcessing, with the response to the submission as it was sent;
\* afterwards no step changes the batch's files, metrics, calls or task
\* position.
C20_ExceptionFailsBatch ==
    [][\A id \in Allocated :
          /\ (task[id].pc # "thrown" /\ task'[id].pc = "thrown")
               => /\ heap'[id].status = "failed"
                  /\ ret'.op = "startProcessing"
                  /\ ret'.id = id
                  /\ ret'.error = "logged"
                  /\ sent'[id] = AcceptedResponse(Len(heap[id].files))
                  /\ task[id].pc # "idle" => sent' = sent
                  /\ jobs' = jobs
          /\ task[id].pc = "thrown"
               => /\ task'[id] = task[id]
                  /\ calls'[id] = calls[id]
                  /\ heap'[id].files = heap[id].files
                  /\ heap'[id].metrics = heap[id].metrics
                  /\ sent'[id] = sent[id]]_vars

\* the loop of a two-file batch was left by an exception after the first
\* file: the batch is failed, the second file was never started
C20_Witness ==
    \E id \in Allocated :
        /\ task[id].pc = "thrown"
        /\ heap[id].status = "failed"
        /\ Len(heap[id].files) = 2
        /\ heap[id].files[1].status = "completed"
        /\ heap[id].files[2].status = "pending"
        /\ calls[id][2] = NoCalls
        /\ sent[id] = AcceptedResponse(2)

\* C21: getBatchProgress, called in any state (while the loop of the batch
\* is waiting for provider calls or for the timer as well), changes nothing
\* and returns for a registered id the batch's status and metrics as they
\* are and exactly the names of the files whose status is processing, and
\* for an id that is not registered not-found.
C21_ProgressIsCurrentAndReadOnly ==
    [][\A id \in BatchIds :
          (ret'.op = "getBatchProgress" /\ ret'.id = id)
            => /\ TrackerUnchanged
               /\ ret'.resp.found = (id \in jobs)
               /\ id \in jobs
                    => LET g == ret'.resp.progress
                           inProcessing ==
                               {k \in FilesOf(id) :
                                   heap[id].files[k].status = "processing"}
                       IN  /\ g.status = heap[id].status
                           /\ g.metrics = heap[id].metrics
                           /\ Len(g.currentFiles) = Cardinality(inProcessing)
                           /\ \A k \in inProcessing :
                                 \E n \in 1..Len(g.currentFiles) :
                                    g.currentFiles[n]
                                      = heap[id].files[k].originalname]_vars

\* progress read while the second file of a cancelled batch is in
\* processing with one call settled, the first file finished
C21_Witness ==
    /\ ret.op = "getBatchProgress"
    /\ ret.resp.found
    /\ task[ret.id] = [pc |-> "calls", i |-> 2]
    /\ \E p \in Providers : calls[ret.id][2][p].st = "rejected"
    /\ ret.resp.progress.status = "cancelled"
    /\ ret.resp.progress.currentFiles = <<FileName(2)>>
    /\ ret.resp.progress.metrics.processing = 1
    /\ ret.resp.progress.metrics.completed = 1

\* C22: every request made to a provider is the one the adapter builds
\* from the file's content, the prompt and the model name under any other
\* job description: it carries the prompt, the content and the model
\* name, and two batches with the same files, prompt and model names have
\* made the same requests whatever their job descriptions.
C22_JobDescriptionNotForwarded ==
    /\ \A id \in Allocated : \A k \in FilesOf(id) : \A p \in Providers :
          LET cfg == heap[id].jobConfig
              content == Content(heap[id].files[k].originalname)
              made == wire[id][k][p]
              n == Len(made.messages)
          IN  IF calls[id][k][p].st = "none"
              THEN made = NoRequest
              ELSE /\ \A jd \in JobDescriptions :
                         made = ProviderRequest(p, content, jd, cfg.prompt,
                                                cfg.models[p])
                   /\ made.model = cfg.models[p]
                   /\ n >= 1
                   /\ made.messages[1].content
                        = IF p = "claude"
                          THEN cfg.prompt \o <<AnalyzeThis>> \o content
                          ELSE cfg.prompt
                   /\ made.messages[n].content
                        = (IF p = "claude" THEN cfg.prompt ELSE <<>>)
                             \o <<AnalyzeThis>> \o content
    /\ \A id1 \in Allocated : \A id2 \in Allocated :
          (/\ Len(heap[id1].files) = Len(heap[id2].files)
           /\ heap[id1].jobConfig.prompt = heap[id2].jobConfig.prompt
           /\ heap[id1].jobConfig.models = heap[id2].jobConfig.models)
            => \A k \in FilesOf(id1) : \A p \in Providers :
                  (calls[id1][k][p].st # "none" /\ calls[id2][k][p].st # "none")
                    => wire[id1][k][p] = wire[id2][k][p]

\* the calls of both files of a batch whose job description is not the
\* default one have been made, to an OpenAI model that takes max_tokens
C22_Witness ==
    \E id \in Allocated :
        /\ heap[id].jobConfig.jobDescription # DefaultConfig.jobDescription
        /\ heap[id].jobConfig.models["openai"] = Gpt4Turbo
        /\ Len(heap[id].files) = 2
        /\ \A k \in FilesOf(id) : \A p \in Providers :
              wire[id][k][p] # NoRequest
        /\ wire[id][2]["openai"].max_tokens = MaxTokens
        /\ wire[id][1] # wire[id][2]

\* C23: in the archive built for a batch no two entries have the same
\* name, whatever the original names of the uploaded files.
C23_EntryNamesDistinct ==
    (ret.op = "downloadResults" /\ ret.val.found)
      => LET a == ret.val.archive
         IN  \A m \in 1..Len(a) : \A n \in 1..Len(a) :
                m # n => a[m].name # a[n].name

\* C24: the number of files in processing at the same time, over all
\* batches, never exceeds the configured concurrent processing limit.
C24_ProcessingWithinLimit ==
    Cardinality(InProcessing) <= ConcurrentProcessing

\* C25: the three provider calls of a file are made in one step, before
\* any of them has settled; the settlement of one call leaves the other
\* two as they are; when the three have settled, each provider's slot of
\* the file is set exactly when that provider's own call succeeded and
\* each provider's counter is the number of files on which its own call
\* succeeded; a file on which some call failed and some succeeded has no
\* error text.
C25_ProvidersSettleIndependently ==
    /\ [](\A id \in Allocated :
            /\ \A k \in FilesOf(id) :
                  LET cs == calls[id][k]
                      file == heap[id].files[k]
                  IN  /\ (\A p \in Providers : cs[p].st = "none")
                           \/ (\A p \in Providers : cs[p].st # "none")
                      /\ \A p \in Providers :
                            file.results[p].set => cs[p].st = "fulfilled"
                      /\ EveryCallSettled(cs)
                           => /\ \A p \in Providers :
                                    file.results[p].set
                                      = (cs[p].st = "fulfilled")
                              /\ Successes(cs) # {} => file.error = ""
            /\ \A p \in Providers :
                  CompleteCount(MetricsOf(id), p)
                    = Cardinality({k \in SucceededOn(id, p) :
                                     EveryCallSettled(calls[id][k])}))
    /\ [][\A id \in Allocated : \A k \in FilesOf(id) : \A p \in Providers :
            calls'[id][k][p] # calls[id][k][p]
              => \/ /\ calls[id][k][p].st = "pending"
                    /\ calls'[id][k][p].st \in {"fulfilled", "rejected"}
                    /\ \A q \in Providers \ {p} :
                          calls'[id][k][q] = calls[id][k][q]
                 \/ /\ \A q \in Providers : calls[id][k][q].st = "none"
                    /\ \A q \in Providers : calls'[id][k][q].st = "pending"]_vars

\* a file is finished on which openai and gemini failed and claude
\* succeeded: only claude's slot is set, and the file has no error text
C25_Witness ==
    \E id \in Allocated : \E k \in FilesOf(id) :
        /\ calls[id][k]["openai"].st = "rejected"
        /\ calls[id][k]["claude"].st = "fulfilled"
        /\ calls[id][k]["gemini"].st = "rejected"
        /\ ~heap[id].files[k].results["openai"].set
        /\ heap[id].files[k].results["claude"].set
        /\ ~heap[id].files[k].results["gemini"].set
        /\ heap[id].files[k].error = ""
        /\ MetricsOf(id).claudeComplete = 1
        /\ MetricsOf(id).openaiComplete = 0

C27_DelayBetweenFilesOnly ==
    /\ [](\A id \in Allocated :
            task[id].pc = "delay" => task[id].i < Len(heap[id].files))
    /\ [][\A id \in Allocated :
            LET i == task[id].i
                n == Len(heap[id].files)
            IN  task'[id] # task[id]
                  => /\ task[id].pc = "idle"
                          => task'[id] = [pc |-> "calls", i |-> 1]
                     /\ task[id].pc = "calls"
                          => /\ EveryCallSettled(calls'[id][i])
                             /\ i < n => task'[id] = [pc |-> "delay", i |-> i]
                             /\ i = n
                                  => /\ task'[id] = [pc |-> "done", i |-> n]
                                     /\ heap'[id].status = "completed"
                     /\ task[id].pc = "delay"
                          => /\ task'[id].i = i + 1
                             /\ id \in jobs => task'[id].pc = "calls"
                             /\ id \notin jobs
                                  => task'[id].pc
                                       = IF i + 1 < n THEN "delay" ELSE "done"
                     /\ task[id].pc # "done"]_vars

\* the loop of a two-file batch has ended in the step in which the last
\* call of the second file was rejected
C27_Witness ==
    \E id \in Allocated :
        /\ task[id] = [pc |-> "done", i |-> 2]
        /\ Len(heap[id].files) = 2
        /\ heap[id].files[2].status = "failed"
        /\ heap[id].status = "completed"

\* C28: in every state each status counter of a batch is the number of
\* its files with that status.
C28_StatusCountersAreCounts ==
    \A id \in Allocated :
        LET m == MetricsOf(id)
        IN  /\ m.pending = Cardinality(WithStatus(id, "pending"))
            /\ m.processing = Cardinality(WithStatus(id, "processing"))
            /\ m.completed = Cardinality(WithStatus(id, "completed"))
            /\ m.failed = Cardinality(WithStatus(id, "failed"))

\* a registered batch with one file failed and the other in processing
C28_Witness ==
    \E id \in jobs :
        /\ heap[id].files[1].status = "failed"
        /\ Len(heap[id].files) = 2
        /\ heap[id].files[2].status = "processing"
        /\ MetricsOf(id).failed = 1
        /\ MetricsOf(id).processing = 1
        /\ MetricsOf(id).pending = 0

\* C29: in every state each provider's completion counter is the number
\* of files of the batch whose slot for that provider is set, and is at
\* most metrics.completed.
C29_ProviderCountersAreSlotCounts ==
    \A id \in Allocated : \A p \in Providers :
        /\ CompleteCount(MetricsOf(id), p) = Cardinality(WithResult(id, p))
        /\ CompleteCount(MetricsOf(id), p) <= MetricsOf(id).completed

\* a registered batch with both files completed, openai's slot set on
\* both, gemini's on one and claude's on none
C29_Witness ==
    \E id \in jobs :
        /\ MetricsOf(id).completed = 2
        /\ MetricsOf(id).openaiComplete = 2
        /\ MetricsOf(id).claudeComplete = 0
        /\ MetricsOf(id).geminiComplete = 1
        /\ Cardinality(WithResult(id, "gemini")) = 1

\* C30: in every state at most one file of a batch has status
\* processing, metrics.processing is 0 or 1, and a getBatchProgress
\* response lists at most one file name.
C30_OneFileAtATime ==
    /\ \A id \in Allocated :
          /\ Cardinality(WithStatus(id, "processing")) <= 1
          /\ MetricsOf(id).processing \in {0, 1}
    /\ (ret.op = "getBatchProgress" /\ ret.resp.found)
          => Len(ret.resp.progress.currentFiles) <= 1

\* progress read while the first of two files is in processing and the
\* second still pending
C30_Witness ==
    /\ ret.op = "getBatchProgress"
    /\ ret.resp.found
    /\ ret.resp.progress.currentFiles = <<FileName(1)>>
    /\ ret.resp.progress.metrics.processing = 1
    /\ ret.resp.progress.metrics.pending = 1
    /\ heap[ret.id].files[2].status = "pending"

\* C31: a batch whose loop is waiting for provider calls or for the timer
\* is in the registry.
C31_RunningBatchStaysRegistered ==
    \A id \in Allocated : task[id].pc \in {"calls", "delay"} => id \in jobs

\* C32: once a batch has left the registry, no step changes a file of it
\* that is pending: the file stays pending with no result, no provider
\* call is made for it, and the batch's pending counter stays as it is
\* while the processing counter does not grow.
C32_DeletedBatchStartsNoFile ==
    [][\A id \in Allocated \ jobs :
          /\ \A k \in FilesOf(id) :
                heap[id].files[k].status = "pending"
                  => /\ heap'[id].files[k] = heap[id].files[k]
                     /\ \A p \in Providers : ~heap'[id].files[k].results[p].set
                     /\ calls'[id][k] = NoCalls
                     /\ wire'[id][k] = NoRequests
          /\ heap'[id].metrics.pending = heap[id].metrics.pending
          /\ heap'[id].metrics.processing <= heap[id].metrics.processing]_vars

\* the loop of a batch deleted during its first file has ended: the second
\* file is pending and was never called for
C32_Witness ==
    \E id \in Allocated \ jobs :
        /\ task[id] = [pc |-> "done", i |-> 2]
        /\ heap[id].files[1].status \in FileTerminal
        /\ heap[id].files[2].status = "pending"
        /\ calls[id][2] = NoCalls
        /\ MetricsOf(id).pending = 1

\* C33: batches are isolated.  A step taken for one batch (a step of its
\* loop, the settlement of one of its provider calls, cancelBatch or
\* deleteBatch called with its id) leaves the object of every other batch
\* (status, metrics, files with their statuses and results) and the
\* registration of every other batch as they are; so does the creation of
\* a new batch.
StepFor(id) ==
    \/ task'[id] # task[id]
    \/ calls'[id] # calls[id]
    \/ heap'[id] # heap[id]
    \/ ret'.op \in {"cancelBatch", "deleteBatch"} /\ ret'.id = id
OthersUntouched(id) ==
    \A other \in Allocated \ {id} :
        /\ heap'[other] = heap[other]
        /\ (other \in jobs') = (other \in jobs)
C33_BatchesAreIsolated ==
    [][/\ \A id \in Allocated : StepFor(id) => OthersUntouched(id)
       /\ Len(heap') > Len(heap) => OthersUntouched(0)]_vars

\* two loops interleave: the first batch has finished a file and waits
\* for the timer while the second, started in between, still waits for
\* the three calls of its first file with its counters as they were set
\* when the file began
C33_Witness ==
    /\ Len(heap) = 2
    /\ task[1].pc = "delay"
    /\ heap[1].files[1].status \in FileTerminal
    /\ task[2].pc = "calls"
    /\ \A p \in Providers : calls[2][1][p].st = "pending"
    /\ heap[2].status = "processing"
    /\ heap[2].files[1].status = "processing"
    /\ MetricsOf(2) = [NewMetrics(Len(heap[2].files)) EXCEPT
                         !.pending = @ - 1, !.processing = 1]

\* C36: the duration recorded for a file is the time from the file's
\* transition to status processing until its processing end.
C36_DurationIsProcessingTime ==
    \A id \in Allocated : \A k \in FilesOf(id) :
        LET progress == heap[id].files[k].progress
        IN  progress.totalDuration # Unset
              => progress.totalDuration = progress.processingEnd - began[id][k]

\* C34: the page's timer is stopped, and its download section revealed,
\* only by a response for the batch the page tracks at that moment which
\* reports completed or failed.
TimerStopped == client.running /\ ~client'.running
DownloadRevealed ==
    client.downloadSection = "hidden" /\ client'.downloadSection = "shown"
C34_OnlyOwnResponseStopsPolling ==
    [][(TimerStopped \/ DownloadRevealed)
          => \E poll \in client.polls \ client'.polls :
                /\ poll.id = client.currentBatchId
                /\ poll.resp.status \in {"completed", "failed"}]_vars

\* C35: once the batch the page tracks is completed, failed, cancelled or
\* deleted, the page's polling timer is eventually cleared.
C35_PollingEventuallyStops ==
    \A id \in BatchIds :
        (/\ client.currentBatchId = id
         /\ client.running
         /\ (id \notin jobs \/ StatusOf(id) \in Terminal))
          ~> ~client.running

====
